---- MODULE Spec2Model ----
(***************************************************************************)
(* Model of teapot.mjs: the OBJ parser (loadTeapotGeometry), the shader    *)
(* pipeline (setupShaderProgram), the setup and frame loop (renderTeapot,  *)
(* renderLoop) and the keydown listener that owns rotationAngle.           *)
(*                                                                         *)
(* The second copy of the file differs in the text of the shaders and in   *)
(* one more uniform (uBaseColor) set before the draw; the parser, the      *)
(* setup, the loop and the listener are the same statements.               *)
(*                                                                         *)
(* Strings are sequences of one-character strings, so that trim, split and *)
(* the number conversions are computed character by character.            *)
(***************************************************************************)
EXTENDS Integers, Sequences, FiniteSets, TLC

\* ------------------------------------------------------------------------
\* Bounds of the model
\* ------------------------------------------------------------------------
MaxLines == 3

MaxKeys == 5

\* ------------------------------------------------------------------------
\* Characters and strings
\* ------------------------------------------------------------------------
Digits == <<"0", "1", "2", "3", "4", "5", "6", "7", "8", "9">>

IsDigit(c) == \E d \in 1..10 : Digits[d] = c

DigitVal(c) == (CHOOSE d \in 1..10 : Digits[d] = c) - 1

\* White space as String.prototype.trim and the number conversions see it.
IsSpace(c) == c \in {" ", "\t", "\r", "\n"}

RECURSIVE TrimStart(_)
TrimStart(s) ==
  IF s # <<>> /\ IsSpace(Head(s)) THEN TrimStart(Tail(s)) ELSE s

RECURSIVE TrimEnd(_)
TrimEnd(s) ==
  IF s # <<>> /\ IsSpace(s[Len(s)]) THEN TrimEnd(SubSeq(s, 1, Len(s) - 1)) ELSE s

\* String.prototype.trim
Trim(s) == TrimEnd(TrimStart(s))

\* String.prototype.split(sep) for a one-character separator: every single
\* occurrence of sep cuts, so two separators in a row give an empty piece,
\* and the empty string gives one empty piece.
RECURSIVE Split(_, _)
Split(s, sep) ==
  IF \E i \in 1..Len(s) : s[i] = sep
  THEN LET i == CHOOSE k \in 1..Len(s) :
                  s[k] = sep /\ \A j \in 1..(k - 1) : s[j] # sep
       IN <<SubSeq(s, 1, i - 1)>> \o Split(SubSeq(s, i + 1, Len(s)), sep)
  ELSE <<s>>

\* The number of leading digits of s.
RECURSIVE DigitRun(_)
DigitRun(s) ==
  IF s # <<>> /\ IsDigit(Head(s)) THEN 1 + DigitRun(Tail(s)) ELSE 0

Drop(s, n) == SubSeq(s, n + 1, Len(s))

\* The value of a string of digits.
RECURSIVE DigitsValue(_)
DigitsValue(s) ==
  IF s = <<>> THEN 0 ELSE 10 * DigitsValue(SubSeq(s, 1, Len(s) - 1)) + DigitVal(s[Len(s)])

\* The length of the longest prefix of s that is a decimal literal
\* [+-] digits [. digits] with at least one digit; 0 when there is none.
LiteralLen(s) ==
  LET sg == IF s # <<>> /\ Head(s) \in {"-", "+"} THEN 1 ELSE 0
      a  == Drop(s, sg)
      ni == DigitRun(a)
      b  == Drop(a, ni)
      nf == IF b # <<>> /\ Head(b) = "." THEN DigitRun(Tail(b)) ELSE 0
      dot == IF b # <<>> /\ Head(b) = "." /\ (ni > 0 \/ nf > 0) THEN 1 ELSE 0
  IN IF ni + nf = 0 THEN 0 ELSE sg + ni + dot + nf

\* A floating-point value: NaN, or the number a decimal literal denotes.
FloatNaN == [nan |-> TRUE, lit |-> <<>>]

\* Global parseFloat: leading white space is skipped, the longest literal
\* prefix is converted and what follows it is ignored; NaN when no prefix is
\* a literal.
parseFloat(s) ==
  LET t == TrimStart(s)
      n == LiteralLen(t)
  IN IF n = 0 THEN FloatNaN ELSE [nan |-> FALSE, lit |-> SubSeq(t, 1, n)]

\* A number of the face arithmetic: sign, integer part of the magnitude, and
\* whether a non-zero fractional part follows it.
Num(neg, int, frac) == [nan |-> FALSE, neg |-> neg, int |-> int, frac |-> frac]

NumNaN == [nan |-> TRUE, neg |-> FALSE, int |-> 0, frac |-> FALSE]

\* An integer or NaN, as an element of the list of indexes.
IntNaN == [nan |-> TRUE, val |-> 0]

IntOf(v) == [nan |-> FALSE, val |-> v]

AnyNonZero(s) == \E i \in 1..Len(s) : s[i] # "0"

\* ToNumber of a string, as the operator "-" applies it to its left operand:
\* white space around is dropped, the empty string is 0, and the whole of
\* what is left has to be a literal, else NaN.
ToNumber(s) ==
  LET t  == Trim(s)
      sg == IF t # <<>> /\ Head(t) \in {"-", "+"} THEN 1 ELSE 0
      a  == Drop(t, sg)
      ni == DigitRun(a)
      b  == Drop(a, ni)
      fd == IF b # <<>> /\ Head(b) = "." THEN SubSeq(b, 2, 1 + DigitRun(Tail(b))) ELSE <<>>
  IN IF t = <<>> THEN Num(FALSE, 0, FALSE)
     ELSE IF LiteralLen(t) # Len(t) THEN NumNaN
     ELSE LET int  == DigitsValue(SubSeq(a, 1, ni))
              frac == AnyNonZero(fd)
          IN Num(sg = 1 /\ Head(t) = "-" /\ (int # 0 \/ frac), int, frac)

\* x - 1
MinusOne(x) ==
  IF x.nan THEN NumNaN
  ELSE IF ~x.frac
       THEN LET v == (IF x.neg THEN -x.int ELSE x.int) - 1
            IN Num(v < 0, IF v < 0 THEN -v ELSE v, FALSE)
  ELSE IF x.neg THEN Num(TRUE, x.int + 1, TRUE)
  ELSE IF x.int >= 1 THEN Num(FALSE, x.int - 1, TRUE)
  ELSE Num(TRUE, 0, TRUE)

\* Global parseInt of a number: the number is printed and the integer at the
\* head of the print is read back, which drops the fractional part.
parseInt(x) ==
  IF x.nan THEN IntNaN ELSE IF x.neg THEN IntOf(-x.int) ELSE IntOf(x.int)

\* The face arithmetic without the step from 1-based to 0-based.
FaceIndexOneBased(vertexData) ==
  parseInt(ToNumber(Split(vertexData, "/")[1]))

\* (vertexData) => parseInt(vertexData.split('/')[0] - 1)
FaceIndex(vertexData) == parseInt(MinusOne(ToNumber(Split(vertexData, "/")[1])))

Uint16Modulus == 65536

\* The conversion of one element on the way into a Uint16Array.
ToUint16(x) == IF x.nan THEN 0 ELSE x.val % Uint16Modulus

\* The conversion of one element on the way into a Float32Array: NaN stays
\* NaN and a number stays the number its literal denotes.
ToFloat32(x) == x

Map(F(_), s) == [i \in 1..Len(s) |-> F(s[i])]

\* Array.prototype.flat, one level deep.
RECURSIVE Flat(_)
Flat(ss) == IF ss = <<>> THEN <<>> ELSE Head(ss) \o Flat(Tail(ss))

\* The three lists the parser fills.
EmptyLists == [vertices |-> <<>>, indexes |-> <<>>, normals |-> <<>>]

TagV == <<"v">>
TagF == <<"f">>
TagVN == <<"v", "n">>

\* One turn of the loop over the lines.
ParseLine(acc, line) ==
  LET parts == Split(Trim(line), " ")
      type  == parts[1]
  IN IF type = TagV
     THEN [acc EXCEPT !.vertices = Append(@, Map(parseFloat, Tail(parts)))]
     ELSE IF type = TagF
     THEN [acc EXCEPT !.indexes = @ \o Map(FaceIndex, Tail(parts))]
     ELSE IF type = TagVN
     THEN [acc EXCEPT !.normals = Append(@, Map(parseFloat, Tail(parts)))]
     ELSE acc

\* The object the parser returns.
Geometry(acc) ==
  [indexes  |-> Map(ToUint16, acc.indexes),
   vertices |-> Map(ToFloat32, Flat(acc.vertices)),
   normals  |-> Map(ToFloat32, Flat(acc.normals))]

RECURSIVE ParseLines(_, _)
ParseLines(acc, ls) ==
  IF ls = <<>> THEN acc ELSE ParseLines(ParseLine(acc, Head(ls)), Tail(ls))

\* The whole of the parser on a text that has been fetched.
ParseText(txt) == Geometry(ParseLines(EmptyLists, Split(txt, "\n")))

\* ------------------------------------------------------------------------
\* Mesh texts the fetch can deliver
\* ------------------------------------------------------------------------
\* The decimal print of a natural number.
RECURSIVE ToDigits(_)
ToDigits(n) ==
  IF n < 10 THEN <<Digits[n + 1]>> ELSE ToDigits(n \div 10) \o <<Digits[(n % 10) + 1]>>

\* A corner of a face: the 1-based vertex index i and the form of the token.
Corner(i, form) == [i |-> i, form |-> form]

TexRef == <<"7">>
NormRef == <<"9">>

CornerToken(c) ==
  IF c.form = "i" THEN ToDigits(c.i)
  ELSE IF c.form = "i/t" THEN ToDigits(c.i) \o <<"/">> \o TexRef
  ELSE IF c.form = "i//n" THEN ToDigits(c.i) \o <<"/", "/">> \o NormRef
  ELSE IF c.form = "i/t/n" THEN ToDigits(c.i) \o <<"/">> \o TexRef \o <<"/">> \o NormRef
  ELSE <<"x">>

\* A line of the text: its tag, its fields, the white space that separates
\* them and the white space that ends it.
VLine(tag, fields, sep) ==
  [tag |-> tag, fields |-> fields, corners |-> <<>>, sep |-> sep, eol |-> <<>>]

FLine(corners, sep) ==
  [tag |-> TagF, fields |-> Map(CornerToken, corners), corners |-> corners,
   sep |-> sep, eol |-> <<>>]

OtherLine(tag, fields) ==
  [tag |-> tag, fields |-> fields, corners |-> <<>>, sep |-> <<" ">>, eol |-> <<>>]

RECURSIVE RenderFields(_, _)
RenderFields(fields, sep) ==
  IF fields = <<>> THEN <<>> ELSE sep \o Head(fields) \o RenderFields(Tail(fields), sep)

RenderLine(l) == l.tag \o RenderFields(l.fields, l.sep) \o l.eol \o <<"\n">>

RECURSIVE RenderText(_)
RenderText(ls) == IF ls = <<>> THEN <<>> ELSE RenderLine(Head(ls)) \o RenderText(Tail(ls))

Sp == <<" ">>
Sp2 == <<" ", " ">>
Tab == <<"\t">>

Tri(a, b, c, form) == <<Corner(a, form), Corner(b, form), Corner(c, form)>>

WellFormedLines ==
  { VLine(TagV, <<<<"1">>, <<"2">>, <<"3">>>>, Sp),
    VLine(TagV, <<<<"0", ".", "5">>, <<"-", "1">>, <<"2">>>>, Sp),
    VLine(TagVN, <<<<"0">>, <<"0">>, <<"1">>>>, Sp),
    [VLine(TagVN, <<<<"0">>, <<"1">>, <<"0">>>>, Sp) EXCEPT !.eol = <<"\r">>],
    FLine(Tri(1, 2, 3, "i"), Sp),
    FLine(Tri(1, 2, 3, "i/t/n"), Sp),
    FLine(<<Corner(3, "i//n"), Corner(1, "i/t"), Corner(2, "i")>>, Sp),
    FLine(<<Corner(1, "i"), Corner(2, "i"), Corner(3, "i"), Corner(4, "i")>>, Sp),
    VLine(TagV, <<<<"1">>, <<"2">>, <<"3">>>>, Sp2),
    FLine(Tri(1, 2, 3, "i"), Tab) }

OutOfRangeLines ==
  { FLine(Tri(0, 1, 2, "i"), Sp),
    FLine(Tri(1, 2, 65537, "i"), Sp) }

MalformedLines ==
  { VLine(TagV, <<<<"1">>, <<"2">>>>, Sp),
    VLine(TagV, <<<<"1">>, <<"x">>, <<"3">>>>, Sp),
    VLine(TagVN, <<<<"0">>, <<"1">>>>, Sp),
    FLine(<<Corner(1, "x"), Corner(1, "i"), Corner(2, "i")>>, Sp) }

IgnoredLines ==
  { OtherLine(<<"#">>, <<<<"x">>>>),
    OtherLine(<<>>, <<>>) }

LineSet == WellFormedLines \cup OutOfRangeLines \cup MalformedLines \cup IgnoredLines

\* The text of the end-to-end scenario: three vertices and one triangle.
ExampleInput ==
  << VLine(TagV, <<<<"0">>, <<"0">>, <<"0">>>>, Sp),
     VLine(TagV, <<<<"1">>, <<"0">>, <<"0">>>>, Sp),
     VLine(TagV, <<<<"0">>, <<"1">>, <<"0">>>>, Sp),
     FLine(Tri(1, 2, 3, "i"), Sp) >>

Inputs == UNION {[1..n -> LineSet] : n \in 1..MaxLines} \cup {ExampleInput}

\* ------------------------------------------------------------------------
\* rotationAngle: IEEE 754 binary64 arithmetic on multiples of 2^-55
\* ------------------------------------------------------------------------
\* 0.19 is the double 6845471433603154 * 2^-55. A sum or difference of
\* multiples of 2^-55 is a multiple of 2^-55, so an angle is kept as a signed
\* count of that unit, in two limbs (hi * 2^28 + lo), and each operation
\* rounds its exact result to 53 significant bits, ties to even.
LimbBase == 2^28

ExactBelow == 2^25    \* hi < 2^25: the magnitude is below 2^53 units

SpeedHi == 25501368

SpeedLo == 85899346

Big(neg, hi, lo) == [neg |-> neg, hi |-> hi, lo |-> lo]

Zero == Big(FALSE, 0, 0)

rotationSpeed == Big(FALSE, SpeedHi, SpeedLo)

Negate(x) == IF x.hi = 0 /\ x.lo = 0 THEN x ELSE [x EXCEPT !.neg = ~x.neg]

MagLess(x, y) == x.hi < y.hi \/ (x.hi = y.hi /\ x.lo < y.lo)

\* |x| + |y| and |x| - |y| (for |x| >= |y|), exactly.
MagAdd(x, y) ==
  LET lo == x.lo + y.lo
  IN IF lo >= LimbBase THEN Big(FALSE, x.hi + y.hi + 1, lo - LimbBase)
     ELSE Big(FALSE, x.hi + y.hi, lo)

MagSub(x, y) ==
  IF x.lo >= y.lo THEN Big(FALSE, x.hi - y.hi, x.lo - y.lo)
  ELSE Big(FALSE, x.hi - y.hi - 1, x.lo + LimbBase - y.lo)

\* x + y, exactly.
ExactAdd(x, y) ==
  IF x.neg = y.neg THEN [MagAdd(x, y) EXCEPT !.neg = x.neg /\ (x.hi + x.lo + y.hi + y.lo > 0)]
  ELSE IF MagLess(x, y) THEN [MagSub(y, x) EXCEPT !.neg = y.neg]
  ELSE IF MagLess(y, x) THEN [MagSub(x, y) EXCEPT !.neg = x.neg]
  ELSE Zero

\* The spacing of the doubles around a magnitude, in units of 2^-55.
RECURSIVE Quantum(_)
Quantum(hi) == IF hi < ExactBelow THEN 1 ELSE 2 * Quantum(hi \div 2)

\* Round to nearest, ties to even.
RoundToDouble(x) ==
  LET q    == Quantum(x.hi)
      r    == x.lo % q
      down == x.lo - r
      up   == (2 * r > q) \/ (2 * r = q /\ (x.lo \div q) % 2 = 1)
  IN IF ~up THEN [x EXCEPT !.lo = down]
     ELSE IF down + q = LimbBase THEN [x EXCEPT !.hi = @ + 1, !.lo = 0]
     ELSE [x EXCEPT !.lo = down + q]

DoubleAdd(x, y) == RoundToDouble(ExactAdd(x, y))

DoubleSub(x, y) == RoundToDouble(ExactAdd(x, Negate(y)))

\* The switch with both arrows turning the same way.
KeyAngleBothSubtract(angle, key) ==
  IF key \in {"ArrowLeft", "ArrowRight"} THEN DoubleSub(angle, rotationSpeed) ELSE angle

\* The switch of the keydown listener.
KeyAngle(angle, key) ==
  IF key = "ArrowLeft" THEN DoubleSub(angle, rotationSpeed)
  ELSE IF key = "ArrowRight" THEN DoubleAdd(angle, rotationSpeed)
  ELSE angle

\* ------------------------------------------------------------------------
\* The rendering context, as far as the calls of renderTeapot drive it
\* ------------------------------------------------------------------------
\* A buffer object holds what the last bufferData call wrote into it: the
\* field of the geometry it came from and the array itself.
EmptyBuffer == [src |-> "none", data |-> <<>>]

NoAttrib == [enabled |-> FALSE, pointer |-> FALSE, buffer |-> 0]

NoDraw == [program |-> 0, count |-> 0, element |-> 0, position |-> NoAttrib, normal |-> NoAttrib]

NoMatrix == [set |-> FALSE, angle |-> Zero]

\* A ratio of two integers.
Ratio(n, d) == [num |-> n, den |-> d]

NoProjection == [set |-> FALSE, m10 |-> Ratio(0, 1), m11 |-> 0, m14 |-> Ratio(0, 1)]

\* perspectiveProjection: the entries that do not go through the tangent of
\* the field of view.
perspectiveProjection(near, far) ==
  [set |-> TRUE,
   m10 |-> Ratio(far + near, near - far),
   m11 |-> -1,
   m14 |-> Ratio(2 * far * near, near - far)]

InitialContext ==
  [buffers            |-> <<>>,      \* the buffer objects, by handle 1, 2, ...
   arrayBuffer        |-> 0,         \* the ARRAY_BUFFER binding, 0 for none
   elementArrayBuffer |-> 0,         \* the ELEMENT_ARRAY_BUFFER binding
   uploads            |-> <<>>,      \* the bufferData calls made so far
   vertexShader       |-> "none",    \* none, compiled or failed
   fragmentShader     |-> "none",
   linkStatus         |-> "none",    \* none, linked or failed
   currentProgram     |-> 0,         \* the program of the last useProgram
   normal             |-> NoAttrib,  \* the vertex attribute 'normal'
   position           |-> NoAttrib,  \* the vertex attribute 'position'
   modelViewMatrix    |-> NoMatrix,  \* the uniforms
   perspectiveMatrix  |-> NoProjection,
   lastDraw           |-> NoDraw]    \* what the last drawElements read

\* createBuffer: the handle of a new, empty buffer object.
CreateBuffer(c) == [c EXCEPT !.buffers = Append(@, EmptyBuffer)]

NewBuffer(c) == Len(c.buffers) + 1

\* bindBuffer(target, buffer)
BindBuffer(c, target, buffer) ==
  IF target = "ELEMENT_ARRAY_BUFFER" THEN [c EXCEPT !.elementArrayBuffer = buffer]
  ELSE [c EXCEPT !.arrayBuffer = buffer]

Bound(c, target) ==
  IF target = "ELEMENT_ARRAY_BUFFER" THEN c.elementArrayBuffer ELSE c.arrayBuffer

\* bufferData(target, data, STATIC_DRAW): writes into the buffer bound to target.
BufferData(c, target, src, data) ==
  [c EXCEPT !.buffers[Bound(c, target)] = [src |-> src, data |-> data],
            !.uploads = Append(@, [buffer |-> Bound(c, target), src |-> src])]

\* enableVertexAttribArray(location)
EnableVertexAttribArray(c, location) ==
  IF location = "normal" THEN [c EXCEPT !.normal.enabled = TRUE]
  ELSE [c EXCEPT !.position.enabled = TRUE]

\* vertexAttribPointer(location, 3, FLOAT, false, 0, 0): the attribute reads
\* from the buffer that is bound to ARRAY_BUFFER at the time of the call.
VertexAttribPointer(c, location) ==
  IF location = "normal"
  THEN [c EXCEPT !.normal.pointer = TRUE, !.normal.buffer = c.arrayBuffer]
  ELSE [c EXCEPT !.position.pointer = TRUE, !.position.buffer = c.arrayBuffer]

\* drawElements(TRIANGLES, count, UNSIGNED_SHORT, 0)
DrawElements(c, count) ==
  [c EXCEPT !.lastDraw = [program  |-> c.currentProgram,
                          count    |-> count,
                          element  |-> c.elementArrayBuffer,
                          position |-> c.position,
                          normal   |-> c.normal]]

\* What the driver can answer to the two compileShader calls and to
\* linkProgram: a program links only if both of its stages compiled.
CompileOutcomes ==
  { o \in [vertex : {"compiled", "failed"}, fragment : {"compiled", "failed"},
           link : {"linked", "failed"}] :
      o.link = "linked" => (o.vertex = "compiled" /\ o.fragment = "compiled") }

\* [scale cos, 0, scale sin, 0, 0, scale, 0, 0, -scale sin, 0, scale cos, 0,
\*  0, 0, translationZ, 1] for the angle read at the head of the frame.
ModelViewMatrix(rotation) == [set |-> TRUE, angle |-> rotation]

\* ------------------------------------------------------------------------
\* State
\* ------------------------------------------------------------------------
VARIABLES
  input,         \* the lines of /teapot.obj, as the server holds them
  pc,            \* where renderTeapot, loadTeapotGeometry and renderLoop stand
  teapotText,    \* the text of the response, once read
  lists,         \* vertices, indexes and normals as the loop over the lines left them
  geometry,      \* teapotGeometry, what loadTeapotGeometry returned
  context,       \* the WebGL context
  index,         \* the locals of renderTeapot: buffer handles and the program
  position,
  normal,
  program,
  rotationAngle, \* the module-level angle
  rotation,      \* the local of renderLoop
  frames,        \* animation-frame callbacks requested and not yet run
  frameLog,      \* what the running (or last) renderLoop call has done so far
  keys           \* the keys the keydown listener has handled, in order

parserVars == <<input, pc, teapotText, lists, geometry>>

localVars == <<index, position, normal, program>>

vars == <<input, pc, teapotText, lists, geometry, context, index, position, normal,
          program, rotationAngle, rotation, frames, frameLog, keys>>

NoGeometry == [indexes |-> <<>>, vertices |-> <<>>, normals |-> <<>>]

\* The state once the module has been evaluated: the listener is registered
\* and renderTeapot has run up to its first await.
Loaded(inputs) ==
  /\ input \in inputs
  /\ pc = "fetch"
  /\ teapotText = <<>>
  /\ lists = EmptyLists
  /\ geometry = NoGeometry
  /\ context = InitialContext
  /\ index = 0
  /\ position = 0
  /\ normal = 0
  /\ program = 0
  /\ rotationAngle = Zero
  /\ rotation = Zero
  /\ frames = 0
  /\ frameLog = <<>>
  /\ keys = <<>>

\* ------------------------------------------------------------------------
\* loadTeapotGeometry
\* ------------------------------------------------------------------------
\* await fetch('/teapot.obj')
FetchResponse ==
  /\ pc = "fetch"
  /\ pc' = "text"
  /\ UNCHANGED <<input, teapotText, lists, geometry, context, localVars,
                 rotationAngle, rotation, frames, frameLog, keys>>

\* await teapotResponse.text()
ReadText ==
  /\ pc = "text"
  /\ teapotText' = RenderText(input)
  /\ pc' = "parse"
  /\ UNCHANGED <<input, lists, geometry, context, localVars,
                 rotationAngle, rotation, frames, frameLog, keys>>

\* The loop over the lines and the return.
ParseAndReturn ==
  /\ pc = "parse"
  /\ lists' = ParseLines(EmptyLists, Split(teapotText, "\n"))
  /\ geometry' = Geometry(lists')
  /\ pc' = "loaded"
  /\ UNCHANGED <<input, teapotText, context, localVars,
                 rotationAngle, rotation, frames, frameLog, keys>>

ParserNext == FetchResponse \/ ReadText \/ ParseAndReturn

\* ------------------------------------------------------------------------
\* renderTeapot, after the geometry is loaded
\* ------------------------------------------------------------------------
setupVars == <<input, teapotText, lists, geometry, rotationAngle, rotation, frameLog, keys>>

\* Bind indexes to ELEMENT_ARRAY_BUFFER
UploadIndexes ==
  /\ pc = "loaded"
  /\ index' = NewBuffer(context)
  /\ context' = BufferData(BindBuffer(CreateBuffer(context), "ELEMENT_ARRAY_BUFFER", index'),
                           "ELEMENT_ARRAY_BUFFER", "indexes", geometry.indexes)
  /\ pc' = "indexes"
  /\ UNCHANGED <<setupVars, position, normal, program, frames>>

\* Bind vertices to ARRAY_BUFFER
UploadVertices ==
  /\ pc = "indexes"
  /\ position' = NewBuffer(context)
  /\ context' = BufferData(BindBuffer(CreateBuffer(context), "ARRAY_BUFFER", position'),
                           "ARRAY_BUFFER", "vertices", geometry.vertices)
  /\ pc' = "vertices"
  /\ UNCHANGED <<setupVars, index, normal, program, frames>>

UploadNormals ==
  /\ pc = "vertices"
  /\ normal' = NewBuffer(context)
  /\ context' = BufferData(BindBuffer(CreateBuffer(context), "ARRAY_BUFFER", normal'),
                           "ARRAY_BUFFER", "normals", geometry.normals)
  /\ pc' = "normals"
  /\ UNCHANGED <<setupVars, index, position, program, frames>>

\* setupShaderProgram: both stages are compiled, attached and linked, and the
\* program is returned; no status is read back.
SetupShaderProgram ==
  /\ pc = "normals"
  /\ \E o \in CompileOutcomes :
       context' = [context EXCEPT !.vertexShader = o.vertex,
                                  !.fragmentShader = o.fragment,
                                  !.linkStatus = o.link]
  /\ program' = 1
  /\ pc' = "program"
  /\ UNCHANGED <<setupVars, index, position, normal, frames>>

\* context.useProgram(program)
UseProgram ==
  /\ pc = "program"
  /\ context' = [context EXCEPT !.currentProgram = program]
  /\ pc' = "used"
  /\ UNCHANGED <<setupVars, localVars, frames>>

\* Bind normal attribute to shader program
BindNormalAttribute ==
  /\ pc = "used"
  /\ context' = VertexAttribPointer(EnableVertexAttribArray(context, "normal"), "normal")
  /\ pc' = "normalBound"
  /\ UNCHANGED <<setupVars, localVars, frames>>

\* The position attribute set up without binding the position buffer first:
\* the normal buffer is still the one bound to ARRAY_BUFFER.
BindPositionAttributeUnbound ==
  /\ pc = "normalBound"
  /\ context' = VertexAttribPointer(EnableVertexAttribArray(context, "position"), "position")
  /\ pc' = "positionBound"
  /\ UNCHANGED <<setupVars, localVars, frames>>

\* Bind position to its shader attribute
BindPositionAttribute ==
  /\ pc = "normalBound"
  /\ context' = VertexAttribPointer(
                  BindBuffer(EnableVertexAttribArray(context, "position"),
                             "ARRAY_BUFFER", position),
                  "position")
  /\ pc' = "positionBound"
  /\ UNCHANGED <<setupVars, localVars, frames>>

\* Start the render loop: requestAnimationFrame(renderLoop); renderTeapot ends.
StartRenderLoop ==
  /\ pc = "positionBound"
  /\ frames' = frames + 1
  /\ pc' = "idle"
  /\ UNCHANGED <<setupVars, context, localVars>>

SetupNext ==
  \/ UploadIndexes
  \/ UploadVertices
  \/ UploadNormals
  \/ SetupShaderProgram
  \/ UseProgram
  \/ BindNormalAttribute
  \/ BindPositionAttribute
  \/ StartRenderLoop

\* ------------------------------------------------------------------------
\* renderLoop
\* ------------------------------------------------------------------------
frameVars == <<input, teapotText, lists, geometry, localVars, rotationAngle, keys>>

\* A callback that works from an angle read before it began.
FrameBeginStaleAngle ==
  /\ pc = "idle"
  /\ frames > 0
  /\ frames' = frames - 1
  /\ rotation' = rotation
  /\ frameLog' = <<"rotation">>
  /\ pc' = "frame"
  /\ UNCHANGED <<frameVars, context>>

\* The host runs a requested callback; it reads the angle first.
FrameBegin ==
  /\ pc = "idle"
  /\ frames > 0
  /\ frames' = frames - 1
  /\ rotation' = rotationAngle
  /\ frameLog' = <<"rotation">>
  /\ pc' = "frame"
  /\ UNCHANGED <<frameVars, context>>

\* uniformMatrix4fv(modelViewMatrixLocation, ...)
SetModelViewMatrix ==
  /\ pc = "frame"
  /\ context' = [context EXCEPT !.modelViewMatrix = ModelViewMatrix(rotation)]
  /\ frameLog' = Append(frameLog, "modelViewMatrix")
  /\ pc' = "modelView"
  /\ UNCHANGED <<frameVars, rotation, frames>>

\* uniformMatrix4fv(perspectiveMatrixLocation, ...)
SetPerspectiveMatrix ==
  /\ pc = "modelView"
  /\ context' = [context EXCEPT !.perspectiveMatrix = perspectiveProjection(1, 100)]
  /\ frameLog' = Append(frameLog, "perspectiveMatrix")
  /\ pc' = "perspective"
  /\ UNCHANGED <<frameVars, rotation, frames>>

\* A draw that creates and uploads the normal buffer again in every frame.
DrawReuploadingNormals ==
  /\ pc = "perspective"
  /\ context' = DrawElements(
                  BufferData(BindBuffer(CreateBuffer(context), "ARRAY_BUFFER", NewBuffer(context)),
                             "ARRAY_BUFFER", "normals", geometry.normals),
                  Len(geometry.indexes))
  /\ frameLog' = Append(frameLog, "drawElements")
  /\ pc' = "drawn"
  /\ UNCHANGED <<frameVars, rotation, frames>>

\* Render the teapot
Draw ==
  /\ pc = "perspective"
  /\ context' = DrawElements(context, Len(geometry.indexes))
  /\ frameLog' = Append(frameLog, "drawElements")
  /\ pc' = "drawn"
  /\ UNCHANGED <<frameVars, rotation, frames>>

\* context.flush()
Flush ==
  /\ pc = "drawn"
  /\ frameLog' = Append(frameLog, "flush")
  /\ pc' = "flushed"
  /\ UNCHANGED <<frameVars, context, rotation, frames>>

\* A callback that returns without requesting the next frame.
ReturnWithoutRequest ==
  /\ pc = "flushed"
  /\ frameLog' = Append(frameLog, "return")
  /\ pc' = "idle"
  /\ UNCHANGED <<frameVars, context, rotation, frames>>

\* Request another frame; the callback returns.
RequestFrame ==
  /\ pc = "flushed"
  /\ frames' = frames + 1
  /\ frameLog' = Append(frameLog, "requestAnimationFrame")
  /\ pc' = "idle"
  /\ UNCHANGED <<frameVars, context, rotation>>

FrameNext ==
  \/ FrameBegin
  \/ SetModelViewMatrix
  \/ SetPerspectiveMatrix
  \/ Draw
  \/ Flush
  \/ RequestFrame

\* ------------------------------------------------------------------------
\* The keydown listener
\* ------------------------------------------------------------------------
Keys == {"ArrowLeft", "ArrowRight", "ArrowUp"}

\* No script is running: renderTeapot is suspended at an await or has ended,
\* and no renderLoop call is under way.
ScriptIdle == pc \in {"fetch", "text", "idle"}

KeyDown(key) ==
  /\ ScriptIdle
  /\ Len(keys) < MaxKeys
  /\ rotationAngle' = KeyAngle(rotationAngle, key)
  /\ keys' = Append(keys, key)
  /\ UNCHANGED <<input, pc, teapotText, lists, geometry, context, localVars,
                 rotation, frames, frameLog>>

KeyNext == \E key \in Keys : KeyDown(key)

\* ------------------------------------------------------------------------
\* Specifications
\* ------------------------------------------------------------------------
RenderInputs ==
  { ExampleInput,
    << VLine(TagV, <<<<"1">>, <<"2">>, <<"3">>>>, Sp),
       VLine(TagVN, <<<<"0">>, <<"0">>, <<"1">>>>, Sp),
       FLine(Tri(1, 1, 1, "i/t/n"), Sp) >> }

Init == Loaded(RenderInputs)

Next == ParserNext \/ SetupNext \/ FrameNext \/ KeyNext

Spec == Init /\ [][Next]_vars

\* The host keeps running requested frame callbacks, and a callback that has
\* begun runs to its end.
FairSpec == Spec /\ WF_vars(FrameNext)

\* The parser alone, on every text of the bounded set.
ParserInit == Loaded(Inputs)

ParserSpec == ParserInit /\ [][ParserNext]_vars

\* ------------------------------------------------------------------------
\* Properties of the parser (checked under ParserSpec)
\* ------------------------------------------------------------------------
LinesTagged(tag) == {i \in DOMAIN input : input[i].tag = tag}

\* A field that is a decimal literal from its first character to its last.
IsFloatField(f) == f # <<>> /\ LiteralLen(f) = Len(f)

CornerForms == {"i", "i/t", "i//n", "i/t/n"}

IsCorner(c) == c.form \in CornerForms /\ c.i >= 1

\* A line of the mesh format: 'v' and 'vn' carry three floats, 'f' carries
\* three or more corners; the white space between the fields is free.
WellFormedLine(l) ==
  /\ l.tag \in {TagV, TagVN} =>
       Len(l.fields) = 3 /\ \A j \in DOMAIN l.fields : IsFloatField(l.fields[j])
  /\ l.tag = TagF =>
       Len(l.corners) >= 3 /\ \A j \in DOMAIN l.corners : IsCorner(l.corners[j])

WellFormedInput == \A i \in DOMAIN input : WellFormedLine(input[i])

FaceSizes == {Len(input[i].corners) : i \in LinesTagged(TagF)}

Returned == pc = "loaded"

\* C1: for a well-formed text with V 'v' lines, N 'vn' lines and F 'f' lines
\* of k corners each, the parser returns 3*V positions, 3*N normals and k*F
\* indexes, whatever the order of the lines and whatever white space
\* separates the tokens.
C1_BufferLengths ==
  (Returned /\ WellFormedInput) =>
    /\ Len(geometry.vertices) = 3 * Cardinality(LinesTagged(TagV))
    /\ Len(geometry.normals) = 3 * Cardinality(LinesTagged(TagVN))
    /\ \A k \in FaceSizes :
         FaceSizes = {k} => Len(geometry.indexes) = k * Cardinality(LinesTagged(TagF))

\* C2: every value of the returned index buffer is at least 0 and below the
\* number of 'v' lines of the text, for every text the parser accepts.
C2_IndexesInRange ==
  Returned =>
    \A j \in DOMAIN geometry.indexes :
      0 <= geometry.indexes[j] /\ geometry.indexes[j] < Cardinality(LinesTagged(TagV))

MalformedVertexLine(l) ==
  /\ l.tag \in {TagV, TagVN}
  /\ ~(Len(l.fields) = 3 /\ \A j \in DOMAIN l.fields : IsFloatField(l.fields[j]))

HasMalformedVertexLine == \E i \in DOMAIN input : MalformedVertexLine(input[i])

Parsed == pc \notin {"fetch", "text", "parse"}

\* C3: a text with a 'v' or 'vn' line that does not give exactly three
\* floats makes the parse fail with MalformedMeshError: no mesh is returned
\* and no vertex with a missing or NaN component is produced.
C3_MalformedRejected ==
  /\ (Parsed /\ HasMalformedVertexLine) => (pc = "MalformedMeshError" /\ geometry = NoGeometry)
  /\ \A j \in DOMAIN lists.vertices :
       Len(lists.vertices[j]) = 3 /\ \A k \in 1..3 : ~lists.vertices[j][k].nan
  /\ \A j \in DOMAIN lists.normals :
       Len(lists.normals[j]) = 3 /\ \A k \in 1..3 : ~lists.normals[j][k].nan

\* The face lines are the ones the loop recognises (fields one space apart)
\* and each of their tokens is a corner i, i/t, i//n or i/t/n with i >= 1.
FacesAreCorners ==
  \A i \in LinesTagged(TagF) :
    input[i].sep = Sp /\ \A j \in DOMAIN input[i].corners : IsCorner(input[i].corners[j])

\* i - 1 for every corner, in the order of the tokens and of the lines.
RECURSIVE CornerIndexes(_)
CornerIndexes(ls) ==
  IF ls = <<>> THEN <<>>
  ELSE [j \in DOMAIN Head(ls).corners |-> Head(ls).corners[j].i - 1] \o CornerIndexes(Tail(ls))

C9_ExampleWitness ==
  Returned /\ input = ExampleInput /\ geometry.indexes = <<0, 1, 2>>

\* ------------------------------------------------------------------------
\* Properties of the pipeline, the setup and the frame loop
\* ------------------------------------------------------------------------
BuildFailed ==
  \/ context.vertexShader = "failed"
  \/ context.fragmentShader = "failed"
  \/ context.linkStatus = "failed"

\* C4: when a stage fails to compile or the link fails, the build fails with
\* ShaderCompileError or ShaderLinkError and no program is returned, made
\* current or used for a draw call.
C4_FailedBuildStops ==
  BuildFailed =>
    /\ pc \in {"ShaderCompileError", "ShaderLinkError"}
    /\ program = 0
    /\ context.currentProgram = 0
    /\ context.lastDraw = NoDraw

InFrame == pc \in {"frame", "modelView", "perspective", "drawn", "flushed"}

\* The initial angle plus one step for every ArrowRight and minus one step
\* for every ArrowLeft, taken in the order of the events.
RECURSIVE Accumulate(_)
Accumulate(ks) ==
  IF ks = <<>> THEN Zero
  ELSE LET before == Accumulate(SubSeq(ks, 1, Len(ks) - 1))
           last   == ks[Len(ks)]
       IN IF last = "ArrowRight" THEN DoubleAdd(before, rotationSpeed)
          ELSE IF last = "ArrowLeft" THEN DoubleSub(before, rotationSpeed)
          ELSE before

\* C5: the angle a frame callback reads is the initial angle moved by one
\* step for every ArrowRight and ArrowLeft handled before the callback began,
\* none lost and none applied twice; the model-view matrix of that frame is
\* built from it, and the angle does not change while the callback runs.
C5_FrameReadsEveryKey ==
  /\ rotationAngle = Accumulate(keys)
  /\ InFrame => rotation = rotationAngle
  /\ pc \in {"modelView", "perspective", "drawn", "flushed"} =>
       context.modelViewMatrix = ModelViewMatrix(Accumulate(keys))

\* A frame has begun whose angle differs from the one of the frame before:
\* a key was handled between the two.
C5_Witness ==
  /\ pc = "frame"
  /\ context.modelViewMatrix.set
  /\ context.modelViewMatrix.angle # rotation
  /\ \E i \in DOMAIN keys : keys[i] = "ArrowLeft"
  /\ \E i \in DOMAIN keys : keys[i] = "ArrowRight"

Opposite(a, b) ==
  \/ (a = "ArrowLeft" /\ b = "ArrowRight")
  \/ (a = "ArrowRight" /\ b = "ArrowLeft")

LastTwoOpposite == Len(keys) >= 2 /\ Opposite(keys[Len(keys) - 1], keys[Len(keys)])

BeforeLastTwo == Accumulate(SubSeq(keys, 1, Len(keys) - 2))

Count(key) == Cardinality({i \in DOMAIN keys : keys[i] = key})

RECURSIVE Repeat(_, _)
Repeat(key, n) == IF n = 0 THEN <<>> ELSE <<key>> \o Repeat(key, n - 1)

\* C6 as stated: a left and a right in a row give back the very angle, the
\* angle depends on the numbers of lefts and rights alone, and other keys
\* leave it alone.
C6_ExactReturn ==
  /\ LastTwoOpposite => rotationAngle = BeforeLastTwo
  /\ rotationAngle =
       Accumulate(Repeat("ArrowRight", Count("ArrowRight")) \o Repeat("ArrowLeft", Count("ArrowLeft")))
  /\ (keys # <<>> /\ keys[Len(keys)] \notin {"ArrowLeft", "ArrowRight"}) =>
       rotationAngle = Accumulate(SubSeq(keys, 1, Len(keys) - 1))

\* |x - y| <= n units of 2^-55, for a small n.
Within(x, y, n) ==
  LET d == ExactAdd(x, Negate(y)) IN d.hi = 0 /\ d.lo <= n

\* n * 0.19, exactly.
RECURSIVE Steps(_)
Steps(n) == IF n = 0 THEN Zero ELSE MagAdd(Steps(n - 1), rotationSpeed)

NetSteps ==
  LET r == Count("ArrowRight")
      l == Count("ArrowLeft")
  IN IF r >= l THEN Steps(r - l) ELSE Negate(Steps(l - r))

\* C6, amended: a left and a right in a row give back the angle up to two
\* units in the last place of |angle| + 0.19; after n directional keys the
\* angle is within n units in the last place of n * 0.19 of
\* (rights - lefts) * 0.19, whatever their order; other keys leave it alone.
C6_ReturnUpToRounding ==
  /\ LastTwoOpposite =>
       Within(rotationAngle, BeforeLastTwo,
              2 * Quantum(MagAdd(BeforeLastTwo, rotationSpeed).hi))
  /\ LET n == Count("ArrowRight") + Count("ArrowLeft")
     IN Within(rotationAngle, NetSteps, n * Quantum(Steps(n).hi))
  /\ (keys # <<>> /\ keys[Len(keys)] \notin {"ArrowLeft", "ArrowRight"}) =>
       rotationAngle = Accumulate(SubSeq(keys, 1, Len(keys) - 1))

\* A left after a right has not given back the very angle.
C6_Witness ==
  /\ LastTwoOpposite
  /\ rotationAngle # BeforeLastTwo
  /\ \E i \in DOMAIN keys : keys[i] = "ArrowUp"

UploadCount(src) ==
  Cardinality({i \in DOMAIN context.uploads : context.uploads[i].src = src})

Holds(buffer, src) ==
  /\ buffer \in DOMAIN context.buffers
  /\ context.buffers[buffer] = [src |-> src, data |-> geometry[src]]

BuffersUploaded ==
  /\ Parsed
  /\ Holds(index, "indexes")
  /\ Holds(position, "vertices")
  /\ Holds(normal, "normals")

AttribReady(a) == a.enabled /\ a.pointer /\ a.buffer \in DOMAIN context.buffers

PipelineBound ==
  /\ BuffersUploaded
  /\ context.vertexShader # "none"
  /\ context.fragmentShader # "none"
  /\ context.linkStatus # "none"
  /\ program # 0
  /\ context.currentProgram = program
  /\ AttribReady(context.position)
  /\ AttribReady(context.normal)

LoopStarted == frames > 0 \/ InFrame \/ frameLog # <<>> \/ context.lastDraw # NoDraw

Running == PipelineBound /\ LoopStarted

Phase ==
  IF Running THEN "Running"
  ELSE IF PipelineBound THEN "PipelineBound"
  ELSE IF BuffersUploaded THEN "BuffersUploaded"
  ELSE "Uninitialized"

PhaseStep(a, b) ==
  \/ a = b
  \/ (a = "Uninitialized" /\ b = "BuffersUploaded")
  \/ (a = "BuffersUploaded" /\ b = "PipelineBound")
  \/ (a = "PipelineBound" /\ b = "Running")

C7_PhaseOrder == [][PhaseStep(Phase, Phase')]_vars

C7_SetupBeforeFrames ==
  [](LoopStarted =>
       /\ teapotText = RenderText(input)
       /\ geometry = ParseText(teapotText)
       /\ PipelineBound)

C7_UploadedOnce ==
  [](/\ \A src \in {"indexes", "vertices", "normals"} :
          UploadCount(src) <= 1 /\ (BuffersUploaded => UploadCount(src) = 1)
     /\ Len(context.buffers) = Len(context.uploads)
     /\ Len(context.buffers) <= Cardinality({"indexes", "vertices", "normals"}))

C7_FramesUploadNothing ==
  [][(InFrame \/ InFrame') =>
       (context.buffers' = context.buffers /\ context.uploads' = context.uploads)]_vars

ReadsFrom(a, src) == a.pointer => Holds(a.buffer, src)

\* C8: at every draw call 'position' reads from the buffer of the parsed
\* positions, 'normal' from the buffer of the parsed normals, and the
\* element array is the buffer of the parsed indexes; an attribute pointer,
\* once set, never reads from another buffer.
C8_AttributesReadOwnBuffers ==
  /\ ReadsFrom(context.position, "vertices")
  /\ ReadsFrom(context.normal, "normals")
  /\ context.lastDraw # NoDraw =>
       /\ AttribReady(context.lastDraw.position)
       /\ AttribReady(context.lastDraw.normal)
       /\ Holds(context.lastDraw.position.buffer, "vertices")
       /\ Holds(context.lastDraw.normal.buffer, "normals")
       /\ Holds(context.lastDraw.element, "indexes")
       /\ context.lastDraw.count = Len(geometry.indexes)

C8_Witness ==
  /\ context.lastDraw # NoDraw
  /\ geometry.normals # <<>>
  /\ geometry.vertices # geometry.normals
  /\ context.arrayBuffer = position

InFlight == frames + (IF InFrame THEN 1 ELSE 0)

Occurrences(log, op) == Cardinality({i \in DOMAIN log : log[i] = op})

PositionOf(log, op) == CHOOSE i \in DOMAIN log : log[i] = op

\* A callback that has returned drew, flushed and then requested one frame,
\* as its last step.
CompleteFrame(log) ==
  /\ Occurrences(log, "requestAnimationFrame") = 1
  /\ Occurrences(log, "drawElements") = 1
  /\ Occurrences(log, "flush") = 1
  /\ log[Len(log)] = "requestAnimationFrame"
  /\ PositionOf(log, "drawElements") < PositionOf(log, "flush")

C10_AtMostOneInFlight ==
  [](/\ InFlight <= 1
     /\ LoopStarted => InFlight = 1
     /\ InFrame => Occurrences(frameLog, "requestAnimationFrame") = 0
     /\ (~InFrame /\ frameLog # <<>>) => CompleteFrame(frameLog))

C10_FramesKeepComing == (frames > 0) ~> (pc = "frame")

\* C10: at most one frame callback is pending or running; setup requests
\* one frame, each callback requests one more as its last step, after the
\* draw and the flush, and has returned before the next begins; once the
\* loop runs, every frame is followed by another.
C10_OneFrameInFlight == C10_AtMostOneInFlight /\ C10_FramesKeepComing

C10_Witness ==
  /\ pc = "idle"
  /\ frames = 1
  /\ CompleteFrame(frameLog)
  /\ Len(keys) = MaxKeys
====
